---- MODULE Spec2Model ----
(***************************************************************************)
(* Etsy Dashboard API: the account service (register, login,              *)
(* get_user_info over the hosted customers store), the token codec, the   *)
(* process-wide settings and error envelope, and the fee calculator.      *)
(*                                                                         *)
(* Time is counted in whole hours.  Money is counted in mills (1/1000 of  *)
(* a currency unit) on input and in cents after each round(.., 2).        *)
(* An e-mail address is a sequence of characters, so that lower() is      *)
(* computed character by character.                                       *)
(***************************************************************************)
EXTENDS Integers, Sequences, FiniteSets, TLC

(* ------------------------------ bounds -------------------------------- *)
\* worker processes of the service that share the hosted store
MaxWorkers == 2
\* rows the customers table may hold
MaxCustomers == 2
\* last hour the clock reaches
MaxClock == 26
\* sale prices posted to /calculate-fees go up to this many mills
MaxPriceMills == 100

(* ------------------------- program constants -------------------------- *)
JWT_EXPIRATION_HOURS == 24
FREE_ANALYSES_LIMIT == 10
UNLIMITED_ANALYSES == 999999

Workers == 1..MaxWorkers
Emails == { <<"u", "@", "x">>, <<"U", "@", "x">>, <<"v", "@", "x">> }
Passwords == {"pw1", "pw2"}
Products == {"insights", "fees"}
None == "None"
JWT_SECRET == "secret"

VARIABLES
    settings,           \* app.config.settings
    supabase_client,    \* per worker process: supabase_client._supabase_client
    customers,          \* rows of the customers table (last_login: <<>> or <<hour>>)
    customer_products,  \* rows of the customer_products table
    reg,                \* per worker: the register request it is serving
    clock,              \* datetime.utcnow(), in hours
    token,              \* the token a client last received
    request,            \* the last request an account handler received
    response,           \* the response sent to it
    fee_request,        \* the last body posted to /calculate-fees
    fee_response        \* and the response to it

feeVars == <<fee_request, fee_response>>
vars == <<settings, supabase_client, customers, customer_products, reg, clock,
          token, request, response, fee_request, fee_response>>

(* ------------------------------ settings ------------------------------ *)
\* validate_settings() runs when app.config is imported: the process only
\* starts when it does not raise.
validate_settings(s) ==
    LET missing == (s.SUPABASE_URL = "") \/ (s.SUPABASE_KEY = "")
    IN ~(missing /\ s.ENVIRONMENT = "production")

Settings ==
    { s \in [ENVIRONMENT : {"development", "production"},
             DEBUG : BOOLEAN,
             SUPABASE_URL : {"", "url"},
             SUPABASE_KEY : {"", "anon"},
             SUPABASE_SERVICE_ROLE_KEY : {"", "srk"}] : validate_settings(s) }

(* ------------------------------ helpers ------------------------------- *)
\* str.lower()
LowerNot(s) == s
LowerChar(c) == CASE c = "U" -> "u" [] c = "V" -> "v" [] c = "X" -> "x" [] OTHER -> c
Lower(s) == [i \in DOMAIN s |-> LowerChar(s[i])]

\* passlib bcrypt.  The random salt is left out: no handler compares two
\* hashes, and verify only asks whether the hash was made from the password.
hash_password(password) == <<"bcrypt", password>>
verify_password(plain_password, hashed_password) ==
    hashed_password = <<"bcrypt", plain_password>>

\* jwt.encode of {user_id, email, exp} under JWT_SECRET
create_access_token_no_lifetime(user_id, email, now) ==
    [user_id |-> user_id, email |-> email, exp |-> now, sig |-> JWT_SECRET]
create_access_token(user_id, email, now) ==
    [user_id |-> user_id, email |-> email, exp |-> now + JWT_EXPIRATION_HOURS,
     sig |-> JWT_SECRET]

\* jwt.decode: the signature is checked first, then exp.  A token presented
\* at the very instant of its expiry is accepted by some PyJWT releases
\* (exp < now rejects) and rejected by others (exp <= now rejects).
verify_token(tok, now) ==
    IF tok.sig # JWT_SECRET THEN {"Invalid token"}
    ELSE IF tok.exp < now THEN {"Token expired"}
    ELSE IF tok.exp = now THEN {"Token expired", "ok"}
    ELSE {"ok"}

NoToken == [user_id |-> 0, email |-> <<>>, exp |-> 0, sig |-> None]

\* one shape for every response; a field the response does not carry keeps
\* its empty value
Reply(op, status, detail) ==
    [op |-> op, status |-> status, detail |-> detail, error |-> None, user_id |-> 0,
     email |-> <<>>, is_premium |-> FALSE, access_token |-> NoToken,
     analyses_this_week |-> 0, analyses_limit |-> 0, queries |-> 0]

Request(op, email, password, user_id, tok) ==
    [op |-> op, email |-> email, password |-> password, user_id |-> user_id, token |-> tok]
NoRequest == Request("none", <<>>, None, 0, NoToken)

\* main.general_exception_handler: the envelope of an unhandled exception
general_exception_handler(op, exc) ==
    [Reply(op, 500, IF settings.DEBUG THEN exc ELSE "An error occurred") EXCEPT
        !.error = "Internal server error"]

\* get_supabase_client() of worker w: raises ValueError, or returns the
\* handle, creating it on the first call
CredentialsMissing ==
    settings.SUPABASE_URL = "" \/ settings.SUPABASE_SERVICE_ROLE_KEY = ""
ClientRaises(w) == supabase_client[w] = None /\ CredentialsMissing
\* create_client(...): a new client object, not the one the process held
create_client(held) == IF held = "client-1" THEN "client-2" ELSE "client-1"
\* an accessor without the test on the stored handle
get_supabase_client_uncached(w) ==
    [supabase_client EXCEPT ![w] = create_client(supabase_client[w])]
get_supabase_client(w) ==
    IF supabase_client[w] = None
    THEN [supabase_client EXCEPT ![w] = create_client(supabase_client[w])]
    ELSE supabase_client
\* supabase_client.test_connection, lines 37-51: asks for the handle and
\* swallows every exception; its boolean result is not kept
test_connection(w) ==
    /\ supabase_client' = IF ClientRaises(w) THEN supabase_client
                          ELSE get_supabase_client(w)
    /\ UNCHANGED <<customers, customer_products, reg, clock, token, request, response,
                   settings, fee_request, fee_response>>
ValueErrorText == "Supabase credentials not configured."

(* --------------------------- fee calculator --------------------------- *)
\* Inputs are in mills, results in cents, the margin in tenths of a percent.
\* round(x, n) of a float: the nearest value with n decimals.  When x is
\* written as a decimal that lies exactly half way, the float that stands for
\* it (or for the arithmetic that produced it) lies a hair above or below, and
\* the result goes either way: both are kept.  x = num / den, den > 0.
RoundDown(num, den) == {num \div den}
Round(num, den) ==
    LET q == num \div den
        r == num % den
    IN IF 2 * r < den THEN {q} ELSE IF 2 * r > den THEN {q + 1} ELSE {q, q + 1}

LISTING_FEE == 20

\* fees.calculate_etsy_fees, lines 58-61: the three rounded fees
FeePartsAdsAlways(sale_price, offsite_ads) ==
    { [transaction_fee |-> transaction_fee, payment_processing |-> payment_processing,
       offsite_ads_fee |-> offsite_ads_fee] :
      transaction_fee \in Round(sale_price * 65, 10000),
      payment_processing \in Round(sale_price * 3 + 25000, 1000),
      offsite_ads_fee \in Round(sale_price * 15, 1000) }
FeeParts(sale_price, offsite_ads) ==
    { [transaction_fee |-> transaction_fee, payment_processing |-> payment_processing,
       offsite_ads_fee |-> offsite_ads_fee] :
      transaction_fee \in Round(sale_price * 65, 10000),
      payment_processing \in Round(sale_price * 3 + 25000, 1000),
      offsite_ads_fee \in (IF offsite_ads THEN Round(sale_price * 15, 1000) ELSE {0}) }

\* fees.calculate_etsy_fees, lines 57-83: every result the rounding allows
calculate_etsy_fees(sale_price, production_cost, shipping_cost, offsite_ads) ==
    UNION { LET total_fees == f.transaction_fee + LISTING_FEE + f.payment_processing
                              + f.offsite_ads_fee
            IN UNION { { [status |-> 200,
                          transaction_fee |-> f.transaction_fee,
                          listing_fee |-> LISTING_FEE,
                          payment_processing |-> f.payment_processing,
                          offsite_ads |-> f.offsite_ads_fee,
                          total_fees |-> total_fees,
                          net_revenue |-> net_revenue,
                          total_costs |-> total_costs,
                          profit |-> net_revenue - total_costs,
                          profit_margin |-> profit_margin] :
                         profit_margin \in
                            (IF sale_price > 0
                             THEN Round((net_revenue - total_costs) * 10000, sale_price)
                             ELSE {0}) } :
                       net_revenue \in Round(sale_price - 10 * total_fees, 10),
                       total_costs \in Round(production_cost + shipping_cost, 10) } :
            f \in FeeParts(sale_price, offsite_ads) }

NoFeeRequest == [sale_price |-> 0, production_cost |-> 0, shipping_cost |-> 0,
                 offsite_ads |-> FALSE]
NoFeeResponse == [status |-> 0, transaction_fee |-> 0, listing_fee |-> 0,
                  payment_processing |-> 0, offsite_ads |-> 0, total_fees |-> 0,
                  net_revenue |-> 0, total_costs |-> 0, profit |-> 0, profit_margin |-> 0]

\* a validation that lets a free item and negative costs through
FeeCalculationRequestLax(req) ==
    req.sale_price >= 0

\* FeeCalculationRequest: Field(gt=0), Field(ge=0), Field(ge=0)
FeeCalculationRequest(req) ==
    req.sale_price > 0 /\ req.production_cost >= 0 /\ req.shipping_cost >= 0

\* the bodies posted: sale prices around the first cents and the documented
\* example, costs with and without a fraction of a cent
EXAMPLE_SALE_PRICE == 29990
EXAMPLE_PRODUCTION_COST == 12000
EXAMPLE_SHIPPING_COST == 4000
SalePrices == (-1..MaxPriceMills) \cup {EXAMPLE_SALE_PRICE}
Costs == {-10, 0, 5, 10, EXAMPLE_SHIPPING_COST, EXAMPLE_PRODUCTION_COST}
FeeRequests == [sale_price : SalePrices, production_cost : Costs, shipping_cost : Costs,
                offsite_ads : BOOLEAN]

\* fees.calculate_fees, lines 86-115: the posted body is validated, then
\* computed; the response is sent once
calculate_fees ==
    /\ fee_response = NoFeeResponse
    /\ IF ~FeeCalculationRequest(fee_request)
       THEN fee_response' = [NoFeeResponse EXCEPT !.status = 422]
       ELSE fee_response' \in calculate_etsy_fees(fee_request.sale_price,
                                 fee_request.production_cost, fee_request.shipping_cost,
                                 fee_request.offsite_ads)
    /\ UNCHANGED <<settings, supabase_client, customers, customer_products, reg, clock,
                   token, request, response, fee_request>>

(* ------------------------------- store -------------------------------- *)
FindByEmail(email) == {c \in customers : c.email = email}
FindById(id) == {c \in customers : c.id = id}
\* insert into customers: the table takes every row; it has no unique index
\* on email that would turn a second row for one address away
StoreInsert(row) == customers \cup {row}
\* the id the store gives the next row
NextId == Cardinality(customers) + 1
IdleReg == [pc |-> "idle", email |-> <<>>, password |-> None]

Init ==
    /\ settings \in Settings
    /\ supabase_client = [w \in Workers |-> None]
    /\ customers = {}
    /\ customer_products = {}
    /\ reg = [w \in Workers |-> IdleReg]
    /\ clock = 0
    /\ token = NoToken
    /\ request = NoRequest
    /\ response = Reply("none", 0, None)
    /\ fee_request = NoFeeRequest
    /\ fee_response = NoFeeResponse

(* ------------------------------ register ------------------------------ *)
\* auth.register, lines 84-92: the client handle, then the e-mail lookup
register_check(w, email, password) ==
    /\ reg[w].pc = "idle"
    /\ request' = Request("register", email, password, 0, NoToken)
    /\ IF ClientRaises(w)
       THEN /\ response' = general_exception_handler("register", ValueErrorText)
            /\ UNCHANGED <<supabase_client, reg>>
       ELSE /\ supabase_client' = get_supabase_client(w)
            /\ IF FindByEmail(Lower(email)) # {}
               THEN /\ response' = Reply("register", 400, "Email already registered")
                    /\ UNCHANGED reg
               ELSE /\ reg' = [reg EXCEPT ![w] =
                                 [pc |-> "checked", email |-> email, password |-> password]]
                    /\ UNCHANGED response
    /\ UNCHANGED feeVars
    /\ UNCHANGED <<settings, customers, customer_products, clock, token>>

RegisterCheck(w) == \E email \in Emails, password \in Passwords :
                       register_check(w, email, password)

\* auth.register, lines 94-137: hash, insert, token.  stored: whether the
\* store returned the created row.
RegisterInsert(w) ==
    /\ reg[w].pc = "checked"
    /\ reg' = [reg EXCEPT ![w] = IdleReg]
    /\ \E stored \in BOOLEAN :
        IF stored /\ Cardinality(customers) < MaxCustomers
        THEN LET row == [id |-> NextId, email |-> Lower(reg[w].email),
                         password_hash |-> hash_password(reg[w].password),
                         is_premium |-> FALSE, usage_count |-> 0, last_login |-> <<>>]
                 tok == create_access_token(row.id, Lower(reg[w].email), clock)
             IN /\ customers' = StoreInsert(row)
                /\ token' = tok
                /\ response' = [Reply("register", 201, None) EXCEPT
                                  !.user_id = row.id, !.email = Lower(reg[w].email),
                                  !.is_premium = FALSE, !.access_token = tok]
        ELSE /\ response' = Reply("register", 500, "Failed to create user")
             /\ UNCHANGED <<customers, token>>
    /\ UNCHANGED feeVars
    /\ UNCHANGED <<settings, supabase_client, customer_products, clock, request>>

(* ------------------------------- login -------------------------------- *)
\* auth.login, lines 152-156 and 161-165: the HTTPException raised when the
\* lookup finds no row, and when the password does not verify
InvalidCredentialsTelling(why) ==
    Reply("login", 401, IF why = "unknown email" THEN "Unknown email"
                        ELSE "Invalid email or password")
InvalidCredentials(why) == Reply("login", 401, "Invalid email or password")

\* auth.login, lines 168-173: try: update ... except: pass.  Whether the
\* update went through or raised, the handler goes on to the reply it builds.
BestEffortRaising(updated, reply) ==
    IF updated THEN reply ELSE general_exception_handler("login", "update failed")
BestEffort(updated, reply) == reply

\* auth.login, lines 147-184.  updated: whether the last_login update went
\* through (an exception of the update is swallowed by the bare except).
login(w, email, password, updated) ==
    /\ request' = Request("login", email, password, 0, NoToken)
    /\ IF ClientRaises(w)
       THEN /\ response' = general_exception_handler("login", ValueErrorText)
            /\ UNCHANGED <<supabase_client, customers, token>>
       ELSE /\ supabase_client' = get_supabase_client(w)
            /\ IF FindByEmail(Lower(email)) = {}
               THEN /\ response' = InvalidCredentials("unknown email")
                    /\ UNCHANGED <<customers, token>>
               ELSE \E customer \in FindByEmail(Lower(email)) :
                      IF ~verify_password(password, customer.password_hash)
                      THEN /\ response' = InvalidCredentials("wrong password")
                           /\ UNCHANGED <<customers, token>>
                      ELSE LET tok == create_access_token(customer.id, customer.email, clock)
                           IN /\ customers' =
                                    IF updated
                                    THEN { IF c.id = customer.id
                                           THEN [c EXCEPT !.last_login = <<clock>>] ELSE c
                                           : c \in customers }
                                    ELSE customers
                              /\ token' = tok
                              /\ response' = BestEffort(updated,
                                    [Reply("login", 200, None) EXCEPT
                                       !.user_id = customer.id, !.email = customer.email,
                                       !.is_premium = customer.is_premium,
                                       !.access_token = tok])
    /\ UNCHANGED feeVars
    /\ UNCHANGED <<settings, customer_products, reg, clock>>

(* --------------------------- get_user_info ---------------------------- *)
UserIds == 1..(MaxCustomers + 1)
\* what a client can present: the token it holds, or one signed with another key
Presentable == {token, [token EXCEPT !.sig = "forged"]}

\* auth.get_user_info, line 197: the token was issued to the requested user
TokenIsForAnyone(tok, user_id) == TRUE
TokenIsFor(tok, user_id) == tok.user_id = user_id

\* auth.get_user_info, lines 219-222: premium is read off the product links
HasInsightsByFlag(customer, products) == customer.is_premium
HasInsights(customer, products) == "insights" \in products

\* auth.get_user_info, lines 194-236
get_user_info(w, user_id, tok) ==
    /\ request' = Request("get_user_info", <<>>, None, user_id, tok)
    /\ \E verdict \in verify_token(tok, clock) :
        IF verdict # "ok"
        THEN /\ response' = Reply("get_user_info", 401, verdict)
             /\ UNCHANGED supabase_client
        ELSE IF ~TokenIsFor(tok, user_id)
        THEN /\ response' = Reply("get_user_info", 403,
                                  "Not authorized to access this user's data")
             /\ UNCHANGED supabase_client
        ELSE IF ClientRaises(w)
        THEN /\ response' = general_exception_handler("get_user_info", ValueErrorText)
             /\ UNCHANGED supabase_client
        ELSE /\ supabase_client' = get_supabase_client(w)
             /\ IF FindById(user_id) = {}
                THEN response' = [Reply("get_user_info", 404, "User not found") EXCEPT
                                     !.queries = 1]
                ELSE \E customer \in FindById(user_id) :
                       LET products == {p.product_id : p \in
                                          {q \in customer_products : q.customer_id = user_id}}
                           has_insights == HasInsights(customer, products)
                       IN response' = [Reply("get_user_info", 200, None) EXCEPT
                              !.user_id = customer.id, !.email = customer.email,
                              !.is_premium = has_insights,
                              !.analyses_this_week = customer.usage_count,
                              !.analyses_limit = IF has_insights THEN UNLIMITED_ANALYSES
                                                 ELSE FREE_ANALYSES_LIMIT,
                              !.queries = 2]
    /\ UNCHANGED feeVars
    /\ UNCHANGED <<settings, customers, customer_products, reg, clock, token>>

(* ---------------------------- environment ----------------------------- *)
\* time passes between requests
Tick ==
    /\ \E d \in {1, JWT_EXPIRATION_HOURS} :
         /\ clock + d <= MaxClock
         /\ clock' = clock + d
    /\ UNCHANGED feeVars
    /\ UNCHANGED <<settings, supabase_client, customers, customer_products, reg,
                   token, request, response>>

\* rows of customer_products are written outside this service (purchases)
GrantProduct ==
    /\ \E c \in customers, p \in Products :
         /\ [customer_id |-> c.id, product_id |-> p] \notin customer_products
         /\ customer_products' = customer_products \cup
                                   {[customer_id |-> c.id, product_id |-> p]}
    /\ UNCHANGED feeVars
    /\ UNCHANGED <<settings, supabase_client, customers, reg, clock, token, request, response>>

RevokeProduct ==
    /\ \E row \in customer_products : customer_products' = customer_products \ {row}
    /\ UNCHANGED feeVars
    /\ UNCHANGED <<settings, supabase_client, customers, reg, clock, token, request, response>>

\* the stored is_premium column is written outside this service as well
SetPremiumFlag ==
    /\ \E c \in customers :
         customers' = (customers \ {c}) \cup {[c EXCEPT !.is_premium = ~c.is_premium]}
    /\ UNCHANGED feeVars
    /\ UNCHANGED <<settings, supabase_client, customer_products, reg, clock, token,
                   request, response>>

(* --------------------------- specifications --------------------------- *)
\* One worker process.  Its handlers are coroutines that never await, so the
\* event loop serves each request to its end before the next one starts.
Register1 == RegisterCheck(1)
Register2 == RegisterInsert(1)
Login == \E email \in Emails, password \in Passwords, updated \in BOOLEAN :
            login(1, email, password, updated)
GetUserInfo == \E user_id \in UserIds, tok \in Presentable : get_user_info(1, user_id, tok)
TestConnection == test_connection(1)

Next ==
    \/ Register1
    \/ Register2
    \/ Login
    \/ GetUserInfo
    \/ TestConnection

Spec == Init /\ [][Next]_vars

\* Several worker processes over the same store: their requests interleave
\* at every call to the store.
InitWorkers ==
    /\ Init
    /\ ~CredentialsMissing
    /\ settings.ENVIRONMENT = "production"

NextWorkers ==
    \/ \E w \in Workers : RegisterCheck(w)
    \/ \E w \in Workers : RegisterInsert(w)
    \/ \E w \in Workers, email \in Emails, password \in Passwords, updated \in BOOLEAN :
          login(w, email, password, updated)

SpecWorkers == InitWorkers /\ [][NextWorkers]_vars

\* Two registered accounts on one worker
InitAccounts ==
    /\ settings = [ENVIRONMENT |-> "production", DEBUG |-> FALSE, SUPABASE_URL |-> "url",
                   SUPABASE_KEY |-> "anon", SUPABASE_SERVICE_ROLE_KEY |-> "srk"]
    /\ supabase_client = [w \in Workers |-> IF w = 1 THEN create_client(None) ELSE None]
    /\ customers =
         { [id |-> 1, email |-> <<"u", "@", "x">>, password_hash |-> hash_password("pw1"),
            is_premium |-> FALSE, usage_count |-> 0, last_login |-> <<>>],
           [id |-> 2, email |-> <<"v", "@", "x">>, password_hash |-> hash_password("pw2"),
            is_premium |-> FALSE, usage_count |-> 0, last_login |-> <<>>] }
    /\ customer_products = {}
    /\ reg = [w \in Workers |-> IdleReg]
    /\ clock = 0
    /\ token = NoToken
    /\ request = NoRequest
    /\ response = Reply("none", 0, None)
    /\ fee_request = NoFeeRequest
    /\ fee_response = NoFeeResponse

\* Tokens over time.  last_login is read by no handler; the logins of this
\* specification are those whose best-effort update does not go through, so
\* that the timestamps do not multiply the states.
LoginAt == \E email \in Emails, password \in Passwords :
              login(1, email, password, FALSE)
GetUserInfoAt == \E w \in Workers, user_id \in UserIds, tok \in Presentable :
                    get_user_info(w, user_id, tok)

NextToken ==
    \/ LoginAt
    \/ GetUserInfoAt
    \/ Tick

SpecToken == InitAccounts /\ [][NextToken]_vars

\* Entitlements: purchases and the legacy flag change between requests
NextEntitle ==
    \/ Login
    \/ GetUserInfo
    \/ GrantProduct
    \/ RevokeProduct
    \/ SetPremiumFlag

SpecEntitle == InitAccounts /\ [][NextEntitle]_vars
\* The fee calculator keeps nothing between two requests: one body is
\* posted and answered
InitFees ==
    /\ settings = [ENVIRONMENT |-> "production", DEBUG |-> FALSE, SUPABASE_URL |-> "url",
                   SUPABASE_KEY |-> "anon", SUPABASE_SERVICE_ROLE_KEY |-> "srk"]
    /\ supabase_client = [w \in Workers |-> None]
    /\ customers = {}
    /\ customer_products = {}
    /\ reg = [w \in Workers |-> IdleReg]
    /\ clock = 0
    /\ token = NoToken
    /\ request = NoRequest
    /\ response = Reply("none", 0, None)
    /\ fee_request \in FeeRequests
    /\ fee_response = NoFeeResponse

NextFees == calculate_fees

SpecFees == InitFees /\ [][NextFees]_vars

(* ------------------------------- claims ------------------------------- *)
\* two addresses that differ at most in the case of their letters
CasePairs == { {"u", "U"}, {"v", "V"}, {"x", "X"} }
SameIgnoringCase(a, b) ==
    /\ Len(a) = Len(b)
    /\ \A i \in 1..Len(a) : a[i] = b[i] \/ {a[i], b[i]} \in CasePairs
Stored(email) == {c \in customers : SameIgnoringCase(c.email, email)}

\* C1: in every state of the customers table reached by interleaved register
\* requests, no two rows carry the same e-mail address up to case.
C1_OneAccountPerEmail ==
    \A a, b \in customers : SameIgnoringCase(a.email, b.email) => a = b

\* C2: served one after another, a register request whose e-mail equals, up
\* to case, that of a stored account is answered 400 "Email already
\* registered", inserts no row, issues no token and is over.
C2_DuplicateRegisterConflicts ==
    [][ \A email \in Emails, password \in Passwords :
          (register_check(1, email, password) /\ ~ClientRaises(1) /\ Stored(email) # {})
          => /\ response'.status = 400
             /\ response'.detail = "Email already registered"
             /\ response'.access_token = NoToken
             /\ customers' = customers
             /\ token' = token
             /\ reg'[1].pc = "idle" ]_vars

C2_Witness ==
    /\ request.op = "register"
    /\ response.op = "register" /\ response.status = 400
    /\ \E c \in Stored(request.email) : c.email # request.email

\* C3: whatever the table holds, a login with an e-mail that has no account
\* and a login with the e-mail of an account and a password that does not
\* match get one and the same response, 401 "Invalid email or password",
\* and neither issues a token.
C3_UniformLoginFailure ==
    [][ \A email \in Emails, password \in Passwords, updated \in BOOLEAN :
          ( /\ login(1, email, password, updated)
            /\ ~ClientRaises(1)
            /\ \/ Stored(email) = {}
               \/ \A c \in Stored(email) : c.password_hash # hash_password(password) )
          => /\ response' = Reply("login", 401, "Invalid email or password")
             /\ token' = token
             /\ customers' = customers ]_vars

C3_Witness ==
    /\ request.op = "login" /\ response.op = "login" /\ response.status = 401
    /\ Stored(request.email) # {}
    /\ \E other \in Emails : Stored(other) = {}

\* C4: a login with the e-mail of an account and the matching password is
\* answered 200 with the account and a token for it, whether the last_login
\* update went through or not; when it did not, the table is as it was.
C4_LoginSurvivesFailedUpdate ==
    [][ \A email \in Emails, password \in Passwords, updated \in BOOLEAN :
          ( /\ login(1, email, password, updated)
            /\ ~ClientRaises(1)
            /\ \E c \in Stored(email) : c.password_hash = hash_password(password) )
          => /\ response'.status = 200
             /\ \E c \in Stored(email) :
                  /\ response'.user_id = c.id
                  /\ response'.email = c.email
                  /\ response'.access_token.user_id = c.id
             /\ response'.access_token.sig = JWT_SECRET
             /\ token' = response'.access_token
             /\ ~updated => customers' = customers ]_vars

C4_Witness ==
    /\ request.op = "login" /\ response.op = "login" /\ response.status = 200
    /\ \E c \in customers : c.id = response.user_id /\ c.last_login = <<>>

\* C5: a token issued at hour T carries the expiry T + 24; presented at any
\* hour before its expiry (T + 1 among them) it is accepted, and at any hour
\* after it (T + 25 among them) it is refused with 401 "Token expired".
C5_TokenLifetime ==
    /\ [][ token' # token => token'.exp = clock + 24 ]_vars
    /\ [][ \A w \in Workers, user_id \in UserIds :
             (get_user_info(w, user_id, token) /\ token.sig = JWT_SECRET)
             => /\ clock < token.exp =>
                     ~(response'.status = 401 /\ response'.op = "get_user_info")
                /\ clock = token.exp - 24 + 1 => response'.status \in {200, 403}
                /\ clock > token.exp =>
                     response' = Reply("get_user_info", 401, "Token expired")
                /\ clock = token.exp - 24 + 25 => response'.detail = "Token expired" ]_vars

C5_Witness ==
    /\ request.op = "get_user_info"
    /\ request.token = token /\ token.sig = JWT_SECRET
    /\ clock = token.exp - 24 + 25
    /\ response.status = 401 /\ response.detail = "Token expired"

\* C6: get_user_info with a rightly signed token of account A that has not
\* expired, asked for a user id B other than A, answers 403, whether an
\* account B exists or not, and has not called the store (nor fetched the
\* client handle) before it answers.
C6_ForeignTokenForbidden ==
    [][ \A w \in Workers, user_id \in UserIds, tok \in Presentable :
          ( /\ get_user_info(w, user_id, tok)
            /\ tok.sig = JWT_SECRET /\ clock < tok.exp
            /\ tok.user_id # user_id )
          => /\ response'.status = 403
             /\ response'.queries = 0
             /\ response'.email = <<>>
             /\ supabase_client' = supabase_client ]_vars

C6_Witness ==
    /\ request.op = "get_user_info" /\ response.status = 403
    /\ request.token.sig = JWT_SECRET /\ clock < request.token.exp
    /\ request.token.user_id # request.user_id
    /\ \E a, b \in customers : a.id = request.token.user_id /\ b.id = request.user_id

\* C7: every get_user_info answered 200 carries analyses_limit 999999 and
\* is_premium true when the product links of the account hold "insights",
\* and analyses_limit 10 and is_premium false when they do not, whatever
\* the stored is_premium flag of the account is.
C7_PremiumFromEntitlement ==
    [][ \A user_id \in UserIds, tok \in Presentable :
          (get_user_info(1, user_id, tok) /\ response'.status = 200)
          => LET linked == [customer_id |-> user_id, product_id |-> "insights"]
                               \in customer_products
             IN /\ response'.user_id = user_id
                /\ response'.is_premium = linked
                /\ response'.analyses_limit = IF linked THEN 999999 ELSE 10 ]_vars

C7_Witness ==
    /\ request.op = "get_user_info" /\ response.status = 200
    /\ ~response.is_premium /\ response.analyses_limit = 10
    /\ \E c \in customers : c.id = response.user_id /\ c.is_premium
    /\ [customer_id |-> response.user_id, product_id |-> "fees"] \in customer_products

\* the answers calculate_etsy_fees can give to the posted body with
\* offsite_ads switched off: the same floats are rounded in both calls, so
\* the fees and costs that do not depend on the switch are the same
WithoutAds ==
    { off \in calculate_etsy_fees(fee_request.sale_price, fee_request.production_cost,
                                  fee_request.shipping_cost, FALSE) :
        /\ off.transaction_fee = fee_response.transaction_fee
        /\ off.payment_processing = fee_response.payment_processing
        /\ off.total_costs = fee_response.total_costs }
AnsweredWithAds == fee_response.status = 200 /\ fee_request.offsite_ads

\* C8 as stated: for every valid body, total_fees with offsite_ads is
\* strictly greater than without, by round(sale_price * 0.15, 2), and profit
\* is lower by that same amount.
C8_AdsStrictlyRaiseFees ==
    AnsweredWithAds =>
        \A off \in WithoutAds :
            /\ fee_response.total_fees > off.total_fees
            /\ fee_response.total_fees - off.total_fees = fee_response.offsite_ads
            /\ off.profit - fee_response.profit = fee_response.offsite_ads

\* C8 amended: for every valid body, total_fees with offsite_ads is the
\* total without plus round(sale_price * 0.15, 2): never smaller, strictly
\* greater when that fee rounds to 0.01 or more (any sale_price from 0.034
\* on) and equal when it rounds to 0.00; profit is lower by that same amount
\* when sale_price is a whole number of cents.
C8_AdsRaiseFeesByRoundedShare ==
    AnsweredWithAds =>
        \A off \in WithoutAds :
            /\ fee_response.total_fees = off.total_fees + fee_response.offsite_ads
            /\ fee_response.total_fees >= off.total_fees
            /\ fee_response.offsite_ads >= 0
            /\ fee_request.sale_price >= 34 => fee_response.total_fees > off.total_fees
            /\ fee_response.offsite_ads = 0 => fee_response.total_fees = off.total_fees
            /\ fee_request.sale_price % 10 = 0 =>
                   off.profit - fee_response.profit = fee_response.offsite_ads

C8_Witness ==
    /\ AnsweredWithAds
    /\ fee_response.offsite_ads > 0
    /\ fee_request.sale_price % 10 = 0
    /\ WithoutAds # {}

ExampleRequest ==
    [sale_price |-> 29990, production_cost |-> 12000, shipping_cost |-> 4000,
     offsite_ads |-> FALSE]
ExampleAnswer(margin) ==
    [status |-> 200, transaction_fee |-> 195, listing_fee |-> 20,
     payment_processing |-> 115, offsite_ads |-> 0, total_fees |-> 330,
     net_revenue |-> 2669, total_costs |-> 1600, profit |-> 1069,
     profit_margin |-> margin]

\* C9 as stated: the documented example (29.99, 12.0, 4.0, no ads) is
\* answered 1.95, 0.20, 1.15, 0.0, 3.30, 26.69, 16.00, 10.69 and margin 35.7.
C9_ExampleMargin357 ==
    (fee_request = ExampleRequest /\ fee_response.status # 0)
        => fee_response = ExampleAnswer(357)

\* C9 amended: the documented example is answered 1.95, 0.20, 1.15, 0.0,
\* 3.30, 26.69, 16.00, 10.69 and margin 35.6 (10.69 / 29.99 = 35.645...%).
C9_ExampleMargin356 ==
    (fee_request = ExampleRequest /\ fee_response.status # 0)
        => fee_response = ExampleAnswer(356)

C9_Witness == fee_request = ExampleRequest /\ fee_response.status = 200

\* C10: whatever ENVIRONMENT and DEBUG are, an unhandled exception is
\* answered by the 500 envelope, and the envelope carries the text of the
\* exception only when ENVIRONMENT is not "production"; in production its
\* detail is "An error occurred".
C10_NoDetailInProduction ==
    response.error = "Internal server error" =>
        /\ response.status = 500
        /\ response.detail # "An error occurred" => settings.ENVIRONMENT # "production"
        /\ settings.ENVIRONMENT = "production" => response.detail = "An error occurred"

\* C11: a body with sale_price <= 0, or with a negative production_cost or
\* shipping_cost, is answered by the 422 validation error and nothing is
\* computed for it; every body calculate_etsy_fees answers has sale_price > 0
\* and costs that are not negative.
C11_InvalidBodyRejected ==
    fee_response.status # 0 =>
        /\ (fee_request.sale_price <= 0 \/ fee_request.production_cost < 0
                \/ fee_request.shipping_cost < 0) =>
               fee_response = [NoFeeResponse EXCEPT !.status = 422]
        /\ fee_response.status = 200 =>
               /\ fee_request.sale_price > 0
               /\ fee_request.production_cost >= 0
               /\ fee_request.shipping_cost >= 0
               /\ fee_response \in calculate_etsy_fees(fee_request.sale_price,
                                     fee_request.production_cost,
                                     fee_request.shipping_cost, fee_request.offsite_ads)
C11_Witness ==
    /\ fee_request.sale_price = 0
    /\ fee_request.production_cost >= 0 /\ fee_request.shipping_cost >= 0
    /\ fee_response.status = 422

\* C12: in each process the client is created at most once.  The handle is
\* either unset or the first object created; once set it is the same object
\* after every later step and is never unset again; it is only ever set with
\* the credentials configured, and the first call with them configured sets
\* it; a call with the credentials missing ends in the ValueError (answered
\* by the 500 envelope, or swallowed by test_connection) with the handle
\* still unset.
CallsClient ==
    \/ TestConnection
    \/ \E email \in Emails, password \in Passwords : register_check(1, email, password)
    \/ \E email \in Emails, password \in Passwords, updated \in BOOLEAN :
          login(1, email, password, updated)
C12_ClientCreatedOnce ==
    [][ /\ \A w \in Workers :
             /\ supabase_client'[w] \in {None, create_client(None)}
             /\ supabase_client[w] # None => supabase_client'[w] = supabase_client[w]
             /\ supabase_client'[w] # None => ~CredentialsMissing
        /\ CallsClient /\ ~CredentialsMissing => supabase_client'[1] = create_client(None)
        /\ CallsClient /\ CredentialsMissing =>
             /\ supabase_client'[1] = None
             /\ ~TestConnection =>
                   /\ response'.status = 500
                   /\ response'.error = "Internal server error"
                   /\ settings.DEBUG => response'.detail = ValueErrorText
      ]_vars
C12_Witness ==
    /\ supabase_client[1] = create_client(None)
    /\ customers # {}
    /\ response.op = "login" /\ response.status = 200
====
